---- MODULE Spec2Model ----
(***************************************************************************)
(* Model of langchain/chat_models/vertexai.py: the history parser, the     *)
(* example parser and the two entry points of ChatVertexAI (_generate and  *)
(* the generator _stream), together with the calls they make on the        *)
(* external client and on the run manager.                                 *)
(*                                                                         *)
(* Python values are represented as follows.  None is the string "None".   *)
(* A message is a record [type, content]; its class is its type.  A dict   *)
(* is a function whose domain is its set of keys.  A response text is a    *)
(* sequence of one-character strings, so that stop words can be searched.  *)
(* Indices reported in errors are Python's, i.e. 0-based.                  *)
(***************************************************************************)
EXTENDS Integers, Sequences, FiniteSets, TLC

VARIABLES
    inst,   \* the ChatVertexAI instance: streaming, is_codey_model, _default_params
    call,   \* the arguments of the invocation in progress (or of the last one)
    ret,    \* what the call expression itself produced: a value or a raised error
    gen,    \* the generator object made by a direct call of _stream
    log,    \* everything observable the invocation did, in order
    pin,    \* parser specification: the function applied and its argument
    pout    \* parser specification: its outcome

vars == <<inst, call, ret, gen, log, pin, pout>>

(***************************************************************************)
(* Bounds of the model.                                                    *)
(***************************************************************************)
MaxMsgs == 2        \* longest `messages` list given to the orchestrator
MaxExamples == 2    \* longest `examples` list given to the orchestrator
MaxChunks == 2      \* most partial responses one upstream stream produces
MaxParse == 4       \* longest list given directly to a parser

None == "None"

SeqsUpTo(S, n) == UNION {[1..k -> S] : k \in 0..n}

Msg(t, c) == [type |-> t, content |-> c]

\* The message classes: SystemMessage, HumanMessage, AIMessage, and ChatMessage
\* standing for every other subclass of BaseMessage.
MessageTypes == {"system", "human", "ai", "chat"}

ParserMessages == {Msg(t, c) : t \in MessageTypes, c \in {"", "x"}}

OrchMessages ==
    {Msg("system", ""), Msg("system", "s"), Msg("human", "q"), Msg("ai", "a"),
     Msg("chat", "c")}

ExampleMessages == {Msg("human", "i"), Msg("ai", "o")}

\* texts a response may carry, and the stop lists a caller may give (<<>> is
\* no stop word at all)
Texts == {<<>>, <<"A">>, <<"A", "B">>, <<"B", "A">>}

StopLists == {<<>>, << <<"C">>, <<"B">> >>}

Faults == {"none", "start_chat", "send"}

\* the `stream` argument of _generate: not given, or given as True, False, None
StreamArgs == {"absent", "True", "False", None}

ExampleLists == SeqsUpTo(ExampleMessages, MaxExamples)

ExtraKwargs == {[k \in {} |-> None], [temperature |-> 9], [context |-> "k"]}

(***************************************************************************)
(* Dicts.                                                                  *)
(***************************************************************************)
EmptyDict == [k \in {} |-> None]

\* {**a, **b}
DictMergeWrong(a, b) ==
    [k \in DOMAIN a \cup DOMAIN b |-> IF k \in DOMAIN a THEN a[k] ELSE b[k]]

DictMerge(a, b) ==
    [k \in DOMAIN a \cup DOMAIN b |-> IF k \in DOMAIN b THEN b[k] ELSE a[k]]

\* d[key] = value on a fresh copy of d
DictSet(d, key, value) ==
    [k \in DOMAIN d \cup {key} |-> IF k = key THEN value ELSE d[k]]

(***************************************************************************)
(* The errors raised.  All are ValueError in the source and differ by      *)
(* their message; they carry the values the message interpolates.          *)
(***************************************************************************)
NoError == [name |-> "none"]

EmptyConversation == [name |-> "EmptyConversation"]

InvalidLastMessage(role) == [name |-> "InvalidLastMessage", role |-> role]

InvalidMessageSequence(type, i) ==
    [name |-> "InvalidMessageSequence", type |-> type, index |-> i]

InvalidExampleCount(n) == [name |-> "InvalidExampleCount", count |-> n]

InvalidExampleRole(expected, type, i) ==
    [name |-> "InvalidExampleRole", expected |-> expected, type |-> type, index |-> i]

\* a keyword given both explicitly and through **params
TypeError(keys) == [name |-> "TypeError", keys |-> keys]

\* a failure of the external client, surfaced unchanged
ClientError(op) == [name |-> "ClientError", op |-> op]

ValidationErrors ==
    {"EmptyConversation", "InvalidLastMessage", "InvalidMessageSequence",
     "InvalidExampleCount", "InvalidExampleRole"}

Raise(e) == [error |-> e, value |-> None]

Return(v) == [error |-> NoError, value |-> v]

(***************************************************************************)
(* _parse_chat_history                                                     *)
(***************************************************************************)
ChatMessage(content, author) == [content |-> content, author |-> author]

_ChatHistory(context, history) == [context |-> context, history |-> history]

RECURSIVE HistoryLoopNoRaise(_, _, _, _)
HistoryLoopNoRaise(history, i, vertex_messages, context) ==
    IF i > Len(history)
    THEN Return(_ChatHistory(context, vertex_messages))
    ELSE LET message == history[i] IN
         IF message.type = "system"
         THEN HistoryLoopNoRaise(history, i + 1, vertex_messages, message.content)
         ELSE IF message.type = "ai"
         THEN HistoryLoopNoRaise(history, i + 1,
                  Append(vertex_messages, ChatMessage(message.content, "bot")), context)
         ELSE HistoryLoopNoRaise(history, i + 1,
                  Append(vertex_messages, ChatMessage(message.content, "user")), context)

\* the for loop of lines 49-61; i is the 1-based position, i - 1 Python's index
RECURSIVE HistoryLoop(_, _, _, _)
HistoryLoop(history, i, vertex_messages, context) ==
    IF i > Len(history)
    THEN Return(_ChatHistory(context, vertex_messages))
    ELSE LET message == history[i] IN
         IF i - 1 = 0 /\ message.type = "system"
         THEN HistoryLoop(history, i + 1, vertex_messages, message.content)
         ELSE IF message.type = "ai"
         THEN HistoryLoop(history, i + 1,
                  Append(vertex_messages, ChatMessage(message.content, "bot")), context)
         ELSE IF message.type = "human"
         THEN HistoryLoop(history, i + 1,
                  Append(vertex_messages, ChatMessage(message.content, "user")), context)
         ELSE Raise(InvalidMessageSequence(message.type, i - 1))

_parse_chat_history_swapped(history) ==
    LET r == HistoryLoop(history, 1, <<>>, None) IN
    IF r.error # NoError THEN r
    ELSE Return(_ChatHistory(r.value.context,
             [k \in 1..Len(r.value.history) |->
                 ChatMessage(r.value.history[k].content,
                     IF r.value.history[k].author = "bot" THEN "user" ELSE "bot")]))

_parse_chat_history_lenient(history) == HistoryLoopNoRaise(history, 1, <<>>, None)

_parse_chat_history(history) == HistoryLoop(history, 1, <<>>, None)

(***************************************************************************)
(* _parse_examples                                                         *)
(***************************************************************************)
InputOutputTextPair(input_text, output_text) ==
    [input_text |-> input_text, output_text |-> output_text]

\* the for loop of lines 75-92
RECURSIVE ExamplesLoop(_, _, _, _)
ExamplesLoop(examples, i, example_pairs, input_text) ==
    IF i > Len(examples)
    THEN Return(example_pairs)
    ELSE LET example == examples[i] IN
         IF (i - 1) % 2 = 0
         THEN IF example.type # "human"
              THEN Raise(InvalidExampleRole("human", example.type, i - 1))
              ELSE ExamplesLoop(examples, i + 1, example_pairs, example.content)
         ELSE IF example.type # "ai"
              THEN Raise(InvalidExampleRole("ai", example.type, i - 1))
              ELSE ExamplesLoop(examples, i + 1,
                       Append(example_pairs,
                              InputOutputTextPair(input_text, example.content)),
                       example.content)

\* a parser that drops the last message of an odd list instead of refusing it
_parse_examples_truncating(examples) ==
    ExamplesLoop(SubSeq(examples, 1, Len(examples) - (Len(examples) % 2)), 1, <<>>, None)

_parse_examples(examples) ==
    IF Len(examples) % 2 # 0
    THEN Raise(InvalidExampleCount(Len(examples)))
    ELSE ExamplesLoop(examples, 1, <<>>, None)

(***************************************************************************)
(* _enforce_stop_words: the text up to the first occurrence of any stop    *)
(* word; the text itself when there is no stop word or none occurs.        *)
(***************************************************************************)
OccursAt(text, word, i) ==
    /\ i + Len(word) - 1 <= Len(text)
    /\ SubSeq(text, i, i + Len(word) - 1) = word

_enforce_stop_words(text, stop) ==
    LET hits == {i \in 1..Len(text) :
                    \E k \in 1..Len(stop) : OccursAt(text, stop[k], i)}
    IN  IF hits = {} THEN text
        ELSE SubSeq(text, 1, (CHOOSE i \in hits : \A j \in hits : i <= j) - 1)

(***************************************************************************)
(* The calls on the external client and on the run manager, as they are    *)
(* recorded in the log.                                                    *)
(***************************************************************************)
ClientOps == {"start_chat", "send_message", "send_message_streaming"}

\* client.start_chat(context=context, message_history=..., **params), or
\* without context for a codey model.  Python refuses a keyword given twice
\* before the call is made.
start_chat_always_context(self, context, message_history, params, fault) ==
    LET explicit == [context |-> context, message_history |-> message_history]
        clash == DOMAIN explicit \cap DOMAIN params
    IN  IF clash # {}
        THEN [error |-> TypeError(clash), events |-> <<>>]
        ELSE [error |-> IF fault = "start_chat" THEN ClientError("start_chat")
                        ELSE NoError,
              events |-> <<[op |-> "start_chat", args |-> DictMerge(explicit, params)]>>]

start_chat(self, context, message_history, params, fault) ==
    LET explicit == IF ~self.is_codey_model
                    THEN [context |-> context, message_history |-> message_history]
                    ELSE [message_history |-> message_history]
        clash == DOMAIN explicit \cap DOMAIN params
    IN  IF clash # {}
        THEN [error |-> TypeError(clash), events |-> <<>>]
        ELSE [error |-> IF fault = "start_chat" THEN ClientError("start_chat")
                        ELSE NoError,
              events |-> <<[op |-> "start_chat", args |-> DictMerge(explicit, params)]>>]

Fail(e) == [error |-> e, events |-> <<>>, question |-> None, params |-> None]

\* `x = e` followed by the statements F(x): e is evaluated once
With(e, F(_)) == CHOOSE v \in {F(x) : x \in {e}} : TRUE

\* the parameters given to start_chat: {**self._default_params, **kwargs},
\* with the parsed pairs under "examples" when kwargs holds a non-empty list
\* of examples (pairs is the outcome of the example parser)
MergedParams(self, kwargs, pairs) ==
    IF "examples" \in DOMAIN kwargs /\ kwargs["examples"] # <<>>
    THEN DictSet(DictMerge(self._default_params, kwargs), "examples", pairs.value)
    ELSE DictMerge(self._default_params, kwargs)

\* history.context if history.context else None
ContextOf(history) ==
    IF history.context # None /\ history.context # "" THEN history.context ELSE None

\* a prologue that opens the session before it parses the examples
OpenSessionEager(self, messages, kwargs, fault) ==
    IF messages = <<>> THEN Fail(EmptyConversation)
    ELSE IF messages[Len(messages)].type # "human"
    THEN Fail(InvalidLastMessage(messages[Len(messages)].type))
    ELSE
    With(_parse_chat_history(SubSeq(messages, 1, Len(messages) - 1)), LAMBDA parsed :
    IF parsed.error # NoError THEN Fail(parsed.error)
    ELSE
    With(start_chat(self, ContextOf(parsed.value), parsed.value.history,
                    DictMerge(self._default_params, kwargs), fault), LAMBDA chat :
    With(IF "examples" \in DOMAIN kwargs /\ kwargs["examples"] # <<>>
         THEN _parse_examples(kwargs["examples"]) ELSE Return(None), LAMBDA pairs :
        [error |-> IF chat.error # NoError THEN chat.error ELSE pairs.error,
         events |-> chat.events,
         question |-> messages[Len(messages)],
         params |-> DictMerge(self._default_params, kwargs)])))

\* a prologue that parses the history before it looks at the last message
OpenSessionParseFirst(self, messages, kwargs, fault) ==
    With(_parse_chat_history(SubSeq(messages, 1, Len(messages) - 1)), LAMBDA parsed :
    IF parsed.error # NoError THEN Fail(parsed.error)
    ELSE IF messages = <<>> THEN Fail(EmptyConversation)
    ELSE IF messages[Len(messages)].type # "human"
    THEN Fail(InvalidLastMessage(messages[Len(messages)].type))
    ELSE
    With(IF "examples" \in DOMAIN kwargs /\ kwargs["examples"] # <<>>
         THEN _parse_examples(kwargs["examples"]) ELSE Return(None), LAMBDA pairs :
    IF pairs.error # NoError THEN Fail(pairs.error)
    ELSE
    With(MergedParams(self, kwargs, pairs), LAMBDA params :
    With(start_chat(self, ContextOf(parsed.value), parsed.value.history, params, fault),
         LAMBDA chat :
        [error |-> chat.error, events |-> chat.events,
         question |-> messages[Len(messages)], params |-> params]))))

\* The statements both entry points start with (lines 145-165 of _generate,
\* repeated word for word as lines 177-198 of _stream): the two checks of
\* `messages`, the history parser, the merge of the parameters, the example
\* parser, start_chat.
OpenSession(self, messages, kwargs, fault) ==
    IF messages = <<>> THEN Fail(EmptyConversation)
    ELSE IF messages[Len(messages)].type # "human"
    THEN Fail(InvalidLastMessage(messages[Len(messages)].type))
    ELSE
    With(_parse_chat_history(SubSeq(messages, 1, Len(messages) - 1)), LAMBDA parsed :
    IF parsed.error # NoError THEN Fail(parsed.error)
    ELSE
    With(IF "examples" \in DOMAIN kwargs /\ kwargs["examples"] # <<>>
         THEN _parse_examples(kwargs["examples"]) ELSE Return(None), LAMBDA pairs :
    IF pairs.error # NoError THEN Fail(pairs.error)
    ELSE
    With(MergedParams(self, kwargs, pairs), LAMBDA params :
    With(start_chat(self, ContextOf(parsed.value), parsed.value.history, params, fault),
         LAMBDA chat :
        [error |-> chat.error, events |-> chat.events,
         question |-> messages[Len(messages)], params |-> params]))))

(***************************************************************************)
(* Values of ret and gen.                                                  *)
(***************************************************************************)
NoRet == [kind |-> "none", error |-> NoError, generations |-> <<>>]

Raised(e) == [kind |-> "raise", error |-> e, generations |-> <<>>]

\* ChatResult(generations=...): each generation is represented by its text
ChatResult(generations) ==
    [kind |-> "ChatResult", error |-> NoError, generations |-> generations]

GeneratorObject == [kind |-> "generator", error |-> NoError, generations |-> <<>>]

\* pc: "none" (no generator), "created" (body not entered), "suspended" (at
\* the yield), "exhausted" (the body returned), "raised" (the body raised);
\* pulled counts the upstream elements received
NoGen == [pc |-> "none", error |-> NoError, pulled |-> 0]

NewGen == [pc |-> "created", error |-> NoError, pulled |-> 0]

EndItem == [end |-> TRUE, text |-> <<>>]

TextItem(t) == [end |-> FALSE, text |-> t]

(***************************************************************************)
(* The non-streaming path of _generate, lines 145-168.                     *)
(***************************************************************************)
_generate_sync(self, messages, stop, kwargs, fault, response) ==
    With(OpenSession(self, messages, kwargs, fault), LAMBDA o :
    IF o.error # NoError
    THEN [ret |-> Raised(o.error), events |-> o.events]
    ELSE IF fault = "send"
    THEN [ret |-> Raised(ClientError("send_message")),
          events |-> Append(o.events,
                        [op |-> "send_message", text |-> o.question.content,
                         args |-> EmptyDict])]
    ELSE [ret |-> ChatResult(<<_enforce_stop_words(response, stop)>>),
          events |-> o.events \o
                     <<[op |-> "send_message", text |-> o.question.content,
                        args |-> EmptyDict],
                       [op |-> "response", text |-> response]>>])

(***************************************************************************)
(* The generator _stream.  Calling it runs nothing; every next() runs the  *)
(* body up to the next yield, to its end, or to a raise.                   *)
(***************************************************************************)
\* lines 177-200: from the entry of the body to the for statement
_stream_head(self, c, fault) ==
    With(OpenSession(self, c.messages, c.kwargs, fault), LAMBDA o :
    IF o.error # NoError
    THEN [error |-> o.error, events |-> o.events]
    ELSE [error |-> IF fault = "send" THEN ClientError("send_message_streaming")
                    ELSE NoError,
          events |-> Append(o.events,
                        [op |-> "send_message_streaming",
                         text |-> o.question.content, args |-> o.params])])

\* a loop body that hands the chunk on before it tells the observer, and
\* tells it the text as received
_stream_loop_late(c, g, item) ==
    IF item.end
    THEN [gen |-> [g EXCEPT !.pc = "exhausted"],
          events |-> <<[op |-> "pull", end |-> TRUE, text |-> <<>>]>>,
          yielded |-> <<>>]
    ELSE
    With(_enforce_stop_words(item.text, c.stop), LAMBDA text :
        [gen |-> [g EXCEPT !.pc = "suspended", !.pulled = @ + 1],
         events |-> <<[op |-> "pull", end |-> FALSE, text |-> item.text]>>
                    \o <<[op |-> "yield", text |-> text]>>
                    \o (IF c.run_manager
                        THEN <<[op |-> "on_llm_new_token", text |-> item.text]>>
                        ELSE <<>>),
         yielded |-> <<text>>])

\* lines 201-205: one turn of the for statement, `item` being what the
\* upstream iterator answers
_stream_loop(c, g, item) ==
    IF item.end
    THEN [gen |-> [g EXCEPT !.pc = "exhausted"],
          events |-> <<[op |-> "pull", end |-> TRUE, text |-> <<>>]>>,
          yielded |-> <<>>]
    ELSE
    With(_enforce_stop_words(item.text, c.stop), LAMBDA text :
        [gen |-> [g EXCEPT !.pc = "suspended", !.pulled = @ + 1],
         events |-> <<[op |-> "pull", end |-> FALSE, text |-> item.text]>>
                    \o (IF c.run_manager
                        THEN <<[op |-> "on_llm_new_token", text |-> text]>>
                        ELSE <<>>)
                    \o <<[op |-> "yield", text |-> text]>>,
         yielded |-> <<text>>])

\* one next() on the generator g
_stream_next(self, c, g, fault, item) ==
    With(IF g.pc = "created" THEN _stream_head(self, c, fault)
         ELSE [error |-> NoError, events |-> <<>>], LAMBDA head :
    IF head.error # NoError
    THEN [gen |-> [g EXCEPT !.pc = "raised", !.error = head.error],
          events |-> <<[op |-> "next"]>> \o head.events,
          yielded |-> <<>>]
    ELSE
    With(_stream_loop(c, g, item), LAMBDA turn :
        [gen |-> turn.gen,
         events |-> <<[op |-> "next"]>> \o head.events \o turn.events,
         yielded |-> turn.yielded]))

\* list(generator): next() until the generator ends or raises; `up` is what
\* the upstream stream holds
RECURSIVE list(_, _, _, _, _, _, _)
list(self, c, g, fault, up, events, out) ==
    IF g.pc \in {"exhausted", "raised"}
    THEN [gen |-> g, events |-> events, out |-> out]
    ELSE
    With(_stream_next(self, c, g, fault,
                      IF up = <<>> THEN EndItem ELSE TextItem(Head(up))), LAMBDA r :
    With([up |-> IF up = <<>> THEN up ELSE Tail(up),
          events |-> events \o r.events, out |-> out \o r.yielded], LAMBDA n :
        list(self, c, r.gen, fault, n.up, n.events, n.out)))

(***************************************************************************)
(* _generate                                                               *)
(***************************************************************************)
\* line 141: stream if stream is not None else self.streaming, `stream`
\* being False when the caller gives none (line 124)
EffectiveStreaming(self, c) ==
    LET stream == IF c.stream = "absent" THEN "False" ELSE c.stream IN
    (IF stream # None THEN stream ELSE self.streaming) = "True"

_generate(self, c, fault, response, up) ==
    IF EffectiveStreaming(self, c)
    THEN With(list(self, c, NewGen, fault, up, <<>>, <<>>), LAMBDA r :
         [ret |-> IF r.gen.pc = "raised" THEN Raised(r.gen.error)
                  ELSE ChatResult(r.out),
          events |-> r.events])
    ELSE _generate_sync(self, c.messages, c.stop, c.kwargs, fault, response)

(***************************************************************************)
(* The state machine: one instance, one invocation of an entry point.      *)
(***************************************************************************)
Instances ==
    [streaming : {"True", "False"},
     is_codey_model : BOOLEAN,
     _default_params : {[temperature |-> 0, max_output_tokens |-> 128]}]

KwargsSet ==
    {DictMerge(e, x) : e \in {EmptyDict} \cup {[examples |-> l] : l \in ExampleLists},
                       x \in ExtraKwargs}

NoCall ==
    [op |-> "none", messages |-> <<>>, stop |-> <<>>, run_manager |-> FALSE,
     stream |-> "absent", kwargs |-> EmptyDict]

NoParse == [fn |-> "none", arg |-> <<>>]

Pending == [done |-> FALSE, error |-> NoError, value |-> None]

Init ==
    /\ inst \in Instances
    /\ call = NoCall
    /\ ret = NoRet
    /\ gen = NoGen
    /\ log = <<>>
    /\ pin = NoParse
    /\ pout = Pending

\* what the client may answer to this invocation: nothing is drawn for a
\* call that never reaches the client
Reaches(self, c) == OpenSession(self, c.messages, c.kwargs, "none").error = NoError

Generate ==
    /\ call.op = "none"
    /\ \E messages \in SeqsUpTo(OrchMessages, MaxMsgs), stop \in StopLists,
          run_manager \in BOOLEAN, stream \in StreamArgs, kwargs \in KwargsSet :
       \E c \in {[op |-> "_generate", messages |-> messages, stop |-> stop,
                  run_manager |-> run_manager, stream |-> stream,
                  kwargs |-> kwargs]} :
       \E on \in {Reaches(inst, c)}, streaming \in {EffectiveStreaming(inst, c)} :
       \E fault \in IF on THEN Faults ELSE {"none"},
          response \in IF on /\ ~streaming THEN Texts ELSE {<<>>},
          up \in IF on /\ streaming THEN SeqsUpTo(Texts, MaxChunks) ELSE {<<>>} :
       \E r \in {_generate(inst, c, fault, response, up)} :
            /\ call' = c
            /\ ret' = r.ret
            /\ log' = r.events
    /\ UNCHANGED <<inst, gen, pin, pout>>

\* the call _stream(...): a generator object comes back, its body not entered
Stream ==
    /\ call.op = "none"
    /\ \E messages \in SeqsUpTo(OrchMessages, MaxMsgs), stop \in StopLists,
          run_manager \in BOOLEAN, kwargs \in KwargsSet :
        call' = [op |-> "_stream", messages |-> messages, stop |-> stop,
                 run_manager |-> run_manager, stream |-> "absent", kwargs |-> kwargs]
    /\ ret' = GeneratorObject
    /\ gen' = NewGen
    /\ log' = <<>>
    /\ UNCHANGED <<inst, pin, pout>>

\* the consumer asks the generator for its next element
StreamNext ==
    /\ call.op = "_stream"
    /\ gen.pc \in {"created", "suspended"}
    /\ \E fault \in IF gen.pc = "created" /\ Reaches(inst, call) THEN Faults
                    ELSE {"none"},
          item \in {EndItem} \cup
                   (IF gen.pulled < MaxChunks THEN {TextItem(t) : t \in Texts} ELSE {}) :
       \E r \in {_stream_next(inst, call, gen, fault, item)} :
            /\ gen' = r.gen
            /\ log' = log \o r.events
    /\ UNCHANGED <<inst, call, ret, pin, pout>>

Next == Generate \/ Stream \/ StreamNext

Spec == Init /\ [][Next]_vars

(***************************************************************************)
(* The parsers on their own: a list is drawn, a parser is applied to it.   *)
(***************************************************************************)
InitParse ==
    /\ inst = [streaming |-> "False", is_codey_model |-> FALSE,
               _default_params |-> [temperature |-> 0, max_output_tokens |-> 128]]
    /\ call = NoCall
    /\ ret = NoRet
    /\ gen = NoGen
    /\ log = <<>>
    /\ pin \in [fn : {"_parse_chat_history", "_parse_examples"},
                arg : SeqsUpTo(ParserMessages, MaxParse)]
    /\ pout = Pending

ParseChatHistory ==
    /\ pin.fn = "_parse_chat_history"
    /\ ~pout.done
    /\ LET r == _parse_chat_history(pin.arg) IN
       pout' = [done |-> TRUE, error |-> r.error, value |-> r.value]
    /\ UNCHANGED <<inst, call, ret, gen, log, pin>>

ParseExamples ==
    /\ pin.fn = "_parse_examples"
    /\ ~pout.done
    /\ LET r == _parse_examples(pin.arg) IN
       pout' = [done |-> TRUE, error |-> r.error, value |-> r.value]
    /\ UNCHANGED <<inst, call, ret, gen, log, pin>>

NextParse == ParseChatHistory \/ ParseExamples

SpecParse == InitParse /\ [][NextParse]_vars

(***************************************************************************)
(* Vocabulary of the properties.                                           *)
(***************************************************************************)
\* the body of the entry point has run (a generator's body runs at the first
\* next(), not at the call)
Started ==
    \/ call.op = "_generate"
    \/ call.op = "_stream" /\ gen.pc # "created"

\* the error the invocation ended in, NoError if none
Failure == IF call.op = "_generate" THEN ret.error ELSE gen.error

\* the invocation got through the prologue and the send without an error
Succeeded ==
    \/ call.op = "_generate" /\ ret.kind = "ChatResult"
    \/ call.op = "_stream" /\ gen.pc \in {"suspended", "exhausted"}

Pos(op) == {i \in 1..Len(log) : log[i].op = op}

TextPulls == {i \in Pos("pull") : ~log[i].end}

\* the k-th smallest element of the set of positions S
Nth(S, k) == CHOOSE p \in S : Cardinality({q \in S : q <= p}) = k

LastMessage == call.messages[Len(call.messages)]

HistoryPart == SubSeq(call.messages, 1, Len(call.messages) - 1)

LeadingSystem(h) == h # <<>> /\ h[1].type = "system"

\* what the specification says the turns of a well-formed history are
ExpectedTurns(h) ==
    LET rest == IF LeadingSystem(h) THEN Tail(h) ELSE h IN
    [k \in 1..Len(rest) |->
        [content |-> rest[k].content,
         author |-> IF rest[k].type = "ai" THEN "bot" ELSE "user"]]

ExpectedContext(h) == IF LeadingSystem(h) THEN h[1].content ELSE None

ExpectedPairs(l) ==
    [k \in 1..(Len(l) \div 2) |->
        [input_text |-> l[2 * k - 1].content, output_text |-> l[2 * k].content]]

\* the message at position i (1-based) is one the history parser refuses
Offending(h, i) ==
    /\ h[i].type \notin {"ai", "human"}
    /\ ~(i = 1 /\ h[i].type = "system")

RECURSIVE Concat(_)
Concat(ts) == IF ts = <<>> THEN <<>> ELSE Head(ts) \o Concat(Tail(ts))

(***************************************************************************)
(* C1                                                                      *)
(***************************************************************************)
\* C1, as claimed: every invocation that ends in a validation failure raised
\* it from the call itself, and no client operation ran before.
C1_RaisedByTheCall ==
    Failure.name \in ValidationErrors =>
        /\ ret.kind = "raise"
        /\ ret.error = Failure
        /\ \A i \in 1..Len(log) : log[i].op \notin ClientOps

\* C1, amended: a validation failure is never preceded by a client operation;
\* _generate raises it from the call itself, while the call of _stream returns
\* a generator and the failure is raised by the first next() on it.
C1_ValidationBeforeClient ==
    Failure.name \in ValidationErrors =>
        /\ \A i \in 1..Len(log) : log[i].op \notin ClientOps
        /\ call.op = "_generate" => ret.kind = "raise" /\ ret.error = Failure
        /\ call.op = "_stream" =>
              /\ ret.kind = "generator"
              /\ gen.pc = "raised"
              /\ Cardinality(Pos("next")) = 1

C1_Witness ==
    /\ call.op = "_stream"
    /\ gen.pc = "raised"
    /\ gen.error.name = "InvalidExampleRole"
    /\ ret.kind = "generator"

(***************************************************************************)
(* C2                                                                      *)
(***************************************************************************)
\* C2, as claimed: with the streaming flag set and at least one partial
\* response, _generate returns exactly one generation, whose text is the
\* concatenation of the truncated chunk texts in order.
C2_OneConcatenatedGeneration ==
    (/\ call.op = "_generate"
     /\ EffectiveStreaming(inst, call)
     /\ ret.kind = "ChatResult"
     /\ TextPulls # {}) =>
        /\ Len(ret.generations) = 1
        /\ ret.generations[1] =
              Concat([k \in 1..Cardinality(TextPulls) |->
                         _enforce_stop_words(log[Nth(TextPulls, k)].text, call.stop)])

(***************************************************************************)
(* C3                                                                      *)
(***************************************************************************)
\* C3, as claimed: a successful _generate took the streaming path exactly
\* when the per-call flag, or the instance default when the caller gave no
\* flag, is true; otherwise it called send_message once and never
\* send_message_streaming.
C3_FlagSelectsPath ==
    (call.op = "_generate" /\ ret.kind = "ChatResult") =>
        LET flag == IF call.stream \in {"absent", None} THEN inst.streaming
                    ELSE call.stream
        IN  /\ flag = "True" =>
                  /\ Cardinality(Pos("send_message_streaming")) = 1
                  /\ Pos("send_message") = {}
            /\ flag # "True" =>
                  /\ Cardinality(Pos("send_message")) = 1
                  /\ Pos("send_message_streaming") = {}

(***************************************************************************)
(* C4                                                                      *)
(***************************************************************************)
\* C4: whatever the flag, the options and the earlier messages are, an empty
\* `messages` fails with EmptyConversation and a last message that is not
\* human fails with InvalidLastMessage naming its type.
C4_MessageChecksFirst ==
    Started =>
        /\ call.messages = <<>> => Failure = EmptyConversation
        /\ (call.messages # <<>> /\ LastMessage.type # "human") =>
              Failure = InvalidLastMessage(LastMessage.type)

C4_Witness ==
    /\ Started
    /\ Len(call.messages) = 2
    /\ call.messages[1].type = "chat"
    /\ LastMessage.type = "system"
    /\ "examples" \in DOMAIN call.kwargs
    /\ Len(call.kwargs["examples"]) = 1
    /\ Failure = InvalidLastMessage("system")

(***************************************************************************)
(* C5                                                                      *)
(***************************************************************************)
WellFormedHistory(h) ==
    \A i \in 1..Len(h) :
        /\ h[i].type \in {"system", "human", "ai"}
        /\ h[i].type = "system" => i = 1

\* C5: on a history of system/human/ai messages whose only system message, if
\* any, is the first, the history parser does not fail; the context is the
\* content of the leading system message (None without one) and the turns
\* are the other messages in order, ai as bot and human as user.
C5_WellFormedHistoryParsed ==
    (pout.done /\ pin.fn = "_parse_chat_history" /\ WellFormedHistory(pin.arg)) =>
        /\ pout.error = NoError
        /\ pout.value.context = ExpectedContext(pin.arg)
        /\ pout.value.history = ExpectedTurns(pin.arg)
        /\ Len(pout.value.history) =
              Len(pin.arg) - (IF LeadingSystem(pin.arg) THEN 1 ELSE 0)

C5_Witness ==
    /\ pout.done
    /\ pin.fn = "_parse_chat_history"
    /\ pin.arg = <<Msg("system", "x"), Msg("human", ""), Msg("ai", "x")>>
    /\ pout.value.context = "x"
    /\ Len(pout.value.history) = 2

(***************************************************************************)
(* C6                                                                      *)
(***************************************************************************)
\* C6, as claimed (and on system/human/ai messages only): for every system
\* message at an index greater than 0, the history parser fails with
\* InvalidMessageSequence citing that index.
C6_CitesEverySystemIndex ==
    (/\ pout.done
     /\ pin.fn = "_parse_chat_history"
     /\ \A i \in 1..Len(pin.arg) : pin.arg[i].type \in {"system", "human", "ai"}) =>
        \A i \in 2..Len(pin.arg) :
            pin.arg[i].type = "system" =>
                pout.error = InvalidMessageSequence("system", i - 1)

\* C6, amended: a history with a system message at an index greater than 0
\* fails with InvalidMessageSequence and no history is returned; the error
\* cites the index and the type of the first message the parser refuses (a
\* system message at an index greater than 0, or a message that is neither
\* system, human nor ai).
C6_CitesFirstOffender ==
    (/\ pout.done
     /\ pin.fn = "_parse_chat_history"
     /\ \E i \in 2..Len(pin.arg) : pin.arg[i].type = "system") =>
        LET first == CHOOSE i \in 1..Len(pin.arg) :
                        /\ Offending(pin.arg, i)
                        /\ \A j \in 1..(i - 1) : ~Offending(pin.arg, j)
        IN  /\ pout.error = InvalidMessageSequence(pin.arg[first].type, first - 1)
            /\ pout.value = None

C6_Witness ==
    /\ pout.done
    /\ pin.fn = "_parse_chat_history"
    /\ Len(pin.arg) = 3
    /\ pin.arg[1].type = "system"
    /\ pin.arg[2].type = "human"
    /\ pin.arg[3].type = "system"
    /\ pout.error = InvalidMessageSequence("system", 2)

(***************************************************************************)
(* C7                                                                      *)
(***************************************************************************)
\* the message at position i (1-based) has the role its offset asks for
RoleFits(l, i) == l[i].type = (IF i % 2 = 1 THEN "human" ELSE "ai")

\* C7: an odd-length list fails with InvalidExampleCount whatever its roles;
\* an even-length list alternating human/ai gives one pair per two messages,
\* in order; an even-length list with a wrong role fails with
\* InvalidExampleRole at the first wrong index.
C7_ExamplesParsed ==
    (pout.done /\ pin.fn = "_parse_examples") =>
        LET l == pin.arg
            bad == {i \in 1..Len(l) : ~RoleFits(l, i)}
        IN  /\ Len(l) % 2 = 1 => pout.error = InvalidExampleCount(Len(l))
            /\ (Len(l) % 2 = 0 /\ bad = {}) =>
                  /\ pout.error = NoError
                  /\ Len(pout.value) = Len(l) \div 2
                  /\ pout.value = ExpectedPairs(l)
            /\ (Len(l) % 2 = 0 /\ bad # {}) =>
                  /\ pout.error.name = "InvalidExampleRole"
                  /\ pout.error.index = Nth(bad, 1) - 1
                  /\ pout.error.type = l[Nth(bad, 1)].type

C7_Witness ==
    /\ pout.done
    /\ pin.fn = "_parse_examples"
    /\ pin.arg = <<Msg("human", "x"), Msg("ai", ""), Msg("human", ""), Msg("ai", "x")>>
    /\ pout.error = NoError
    /\ Len(pout.value) = 2

(***************************************************************************)
(* C8                                                                      *)
(***************************************************************************)
\* C8, as claimed: start_chat of a codey model gets no context argument at
\* all; start_chat of a chat model gets the parsed context and the parsed
\* turns.
C8_ContextOnlyForChatModels ==
    \A i \in Pos("start_chat") :
        /\ inst.is_codey_model => "context" \notin DOMAIN log[i].args
        /\ ~inst.is_codey_model =>
              /\ "context" \in DOMAIN log[i].args
              /\ log[i].args["context"] = ExpectedContext(HistoryPart)
              /\ log[i].args["message_history"] = ExpectedTurns(HistoryPart)

\* C8, amended: a codey model's start_chat never gets the parsed context: it
\* has a context argument only when the caller's options hold a `context`
\* key, and then that value; a chat model's start_chat gets exactly one
\* context argument, the parsed context when that is a non-empty string and
\* None otherwise; both get the parsed turns as message_history.
C8_ParsedContextOnlyForChatModels ==
    \A i \in Pos("start_chat") :
        /\ log[i].args["message_history"] = ExpectedTurns(HistoryPart)
        /\ inst.is_codey_model =>
              /\ "context" \in DOMAIN log[i].args <=> "context" \in DOMAIN call.kwargs
              /\ "context" \in DOMAIN log[i].args =>
                    log[i].args["context"] = call.kwargs["context"]
        /\ ~inst.is_codey_model =>
              /\ "context" \in DOMAIN log[i].args
              /\ "context" \notin DOMAIN call.kwargs
              /\ log[i].args["context"] =
                    (IF ExpectedContext(HistoryPart) \in {None, ""} THEN None
                     ELSE ExpectedContext(HistoryPart))

C8_Witness ==
    /\ inst.is_codey_model
    /\ Len(call.messages) = 2
    /\ call.messages[1] = Msg("system", "s")
    /\ "context" \notin DOMAIN call.kwargs
    /\ Pos("start_chat") # {}
    /\ \A i \in Pos("start_chat") : "context" \notin DOMAIN log[i].args

(***************************************************************************)
(* C9                                                                      *)
(***************************************************************************)
\* C9: the generator yields one chunk per partial response, in order, each
\* the truncation of that response alone; a registered observer is told each
\* chunk's text once, after the previous chunk was yielded and before this
\* one is; the upstream is asked for an element only when the consumer asked
\* for one; the generator ends exactly when the upstream does.
C9_ChunkPerResponse ==
    LET pulls == TextPulls
        yields == Pos("yield")
        tokens == Pos("on_llm_new_token")
        n == Cardinality(pulls)
    IN  /\ Cardinality(yields) = n
        /\ \A k \in 1..n :
              /\ Nth(pulls, k) < Nth(yields, k)
              /\ k < n => Nth(yields, k) < Nth(pulls, k + 1)
              /\ log[Nth(yields, k)].text =
                    _enforce_stop_words(log[Nth(pulls, k)].text, call.stop)
        /\ ~call.run_manager => tokens = {}
        /\ call.run_manager =>
              /\ Cardinality(tokens) = n
              /\ \A k \in 1..n :
                    /\ log[Nth(tokens, k)].text = log[Nth(yields, k)].text
                    /\ Nth(tokens, k) < Nth(yields, k)
                    /\ Nth(pulls, k) < Nth(tokens, k)
                    /\ k > 1 => Nth(yields, k - 1) < Nth(tokens, k)
        /\ Cardinality(Pos("pull")) <= Cardinality(Pos("next"))
        /\ \A k \in 1..Cardinality(Pos("pull")) :
              Nth(Pos("next"), k) < Nth(Pos("pull"), k)
        /\ call.op = "_stream" =>
              (gen.pc = "exhausted" <=> \E i \in Pos("pull") : log[i].end)
        /\ \A i \in Pos("pull") : log[i].end => i = Len(log)

C9_Witness ==
    /\ call.op = "_stream"
    /\ call.run_manager
    /\ gen.pc = "exhausted"
    /\ Cardinality(Pos("yield")) = 2
    /\ log[Nth(TextPulls, 1)].text = <<"A", "B">>
    /\ log[Nth(Pos("yield"), 1)].text = <<"A">>
    /\ log[Nth(Pos("yield"), 2)].text = <<"A">>

====
